---------------------------- MODULE Spec2Model ----------------------------
(***************************************************************************)
(* A model of VCMI's JSON document core: the JsonNode value model          *)
(* (lib/json/JsonNode.cpp), its pointer resolver and the JsonWriter        *)
(* serializer (lib/json/JsonWriter.cpp).                                   *)
(*                                                                         *)
(* A std::string is a sequence of characters; a character is a one-letter  *)
(* string, the control characters are written "\n", "\t", "\r", "\f" and   *)
(* "<BS>" (backspace).  A double is held in tenths (39 is 3.9), which is   *)
(* exact for the values drawn here.  A JsonMap (std::map) is the sequence  *)
(* of its <<key, node>> entries in ascending key order.                    *)
(***************************************************************************)
EXTENDS Integers, Sequences, FiniteSets, TLC

(***************************************************************************)
(* Characters and strings                                                  *)
(***************************************************************************)

\* The characters of the model in ascending byte order (std::less<std::string>).
CharOrder ==
    << "<BS>", "\t", "\n", "\f", "\r", " ", "\"", ",", "-", ".", "/",
       "0", "1", "2", "3", "4", "5", "6", "7", "8", "9", ":",
       "A", "E", "F", "L", "R", "S", "T", "U",
       "[", "\\", "]",
       "a", "b", "e", "f", "g", "l", "m", "n", "r", "s", "t", "u", "x", "y",
       "{", "}" >>

Code(c) == CHOOSE k \in 1..Len(CharOrder) : CharOrder[k] = c

RECURSIVE StrLess(_, _)
StrLess(a, b) ==
    IF b = <<>> THEN FALSE
    ELSE IF a = <<>> THEN TRUE
    ELSE IF Head(a) = Head(b) THEN StrLess(Tail(a), Tail(b))
    ELSE Code(Head(a)) < Code(Head(b))

Digits == <<"0", "1", "2", "3", "4", "5", "6", "7", "8", "9">>

IsDigit(c) == \E k \in 1..10 : Digits[k] = c

DigitValue(c) == (CHOOSE k \in 1..10 : Digits[k] = c) - 1

\* Decimal text of a natural number (operator<< on an integer).
RECURSIVE NatText(_)
NatText(n) == IF n < 10 THEN <<Digits[n + 1]>> ELSE NatText(n \div 10) \o <<Digits[(n % 10) + 1]>>

IntText(i) == IF i < 0 THEN <<"-">> \o NatText(-i) ELSE NatText(i)

\* Text of a double held in tenths, as the default stream format (%g, precision 6)
\* writes it: no decimal point when the value is integral.
FloatText(f) ==
    LET a == IF f < 0 THEN -f ELSE f
        sign == IF f < 0 THEN <<"-">> ELSE <<>>
    IN  sign \o NatText(a \div 10) \o (IF a % 10 = 0 THEN <<>> ELSE <<".", Digits[(a % 10) + 1]>>)

\* boost::lexical_cast<size_t> of a string of digits.
RECURSIVE DigitsValue(_)
DigitsValue(s) == IF s = <<>> THEN 0 ELSE DigitsValue(SubSeq(s, 1, Len(s) - 1)) * 10 + DigitValue(s[Len(s)])

(***************************************************************************)
(* The node value model                                                    *)
(***************************************************************************)

JsonType == {"DATA_NULL", "DATA_BOOL", "DATA_FLOAT", "DATA_STRING", "DATA_VECTOR", "DATA_STRUCT", "DATA_INTEGER"}

\* The variant payload: the discriminant and the active alternative; the
\* inactive alternatives stay at fixed values so that equality of two
\* payloads is equality of discriminant and active alternative.
JsonData(type, b, i, f, s, v, m) == [type |-> type, b |-> b, i |-> i, f |-> f, s |-> s, v |-> v, m |-> m]

DataNull == JsonData("DATA_NULL", FALSE, 0, 0, <<>>, <<>>, <<>>)
DataBool(b) == JsonData("DATA_BOOL", b, 0, 0, <<>>, <<>>, <<>>)
DataFloat(f) == JsonData("DATA_FLOAT", FALSE, 0, f, <<>>, <<>>, <<>>)
DataString(s) == JsonData("DATA_STRING", FALSE, 0, 0, s, <<>>, <<>>)
DataVector(v) == JsonData("DATA_VECTOR", FALSE, 0, 0, <<>>, v, <<>>)
DataStruct(m) == JsonData("DATA_STRUCT", FALSE, 0, 0, <<>>, <<>>, m)
DataInteger(i) == JsonData("DATA_INTEGER", FALSE, i, 0, <<>>, <<>>, <<>>)

JsonNode(data) == [data |-> data, meta |-> <<>>, flags |-> <<>>]

\* static const JsonNode nullNode
nullNode == JsonNode(DataNull)

getType(n) == n.data.type

\* static_cast<si64>(double): the fraction is dropped, toward zero.
DoubleToSi64(f) == IF f >= 0 THEN f \div 10 ELSE -((-f) \div 10)

\* static_cast<double>(si64)
Si64ToDouble(i) == i * 10

DefaultData(Type) ==
    CASE Type = "DATA_NULL" -> DataNull
      [] Type = "DATA_BOOL" -> DataBool(FALSE)
      [] Type = "DATA_FLOAT" -> DataFloat(0)
      [] Type = "DATA_STRING" -> DataString(<<>>)
      [] Type = "DATA_VECTOR" -> DataVector(<<>>)
      [] Type = "DATA_STRUCT" -> DataStruct(<<>>)
      [] Type = "DATA_INTEGER" -> DataInteger(0)

SetTypeFloorsFloat(n, Type) ==
    IF getType(n) = Type THEN n
    ELSE IF getType(n) = "DATA_FLOAT" /\ Type = "DATA_INTEGER"
        THEN [n EXCEPT !.data = DataInteger(n.data.f \div 10)]
    ELSE IF getType(n) = "DATA_INTEGER" /\ Type = "DATA_FLOAT"
        THEN [n EXCEPT !.data = DataFloat(Si64ToDouble(n.data.i))]
    ELSE [n EXCEPT !.data = DefaultData(Type)]

setType(n, Type) ==
    IF getType(n) = Type THEN n
    ELSE IF getType(n) = "DATA_FLOAT" /\ Type = "DATA_INTEGER"
        THEN [n EXCEPT !.data = DataInteger(DoubleToSi64(n.data.f))]
    ELSE IF getType(n) = "DATA_INTEGER" /\ Type = "DATA_FLOAT"
        THEN [n EXCEPT !.data = DataFloat(Si64ToDouble(n.data.i))]
    ELSE [n EXCEPT !.data = DefaultData(Type)]

\* operator==: data == other.data, which compares child nodes by operator==
\* too, so meta and flags are ignored at every level.
RECURSIVE NodeEq(_, _)
NodeEq(a, b) ==
    /\ getType(a) = getType(b)
    /\ a.data.b = b.data.b
    /\ a.data.i = b.data.i
    /\ a.data.f = b.data.f
    /\ a.data.s = b.data.s
    /\ Len(a.data.v) = Len(b.data.v)
    /\ \A k \in 1..Len(a.data.v) : NodeEq(a.data.v[k], b.data.v[k])
    /\ Len(a.data.m) = Len(b.data.m)
    /\ \A k \in 1..Len(a.data.m) :
          /\ a.data.m[k][1] = b.data.m[k][1]
          /\ NodeEq(a.data.m[k][2], b.data.m[k][2])

(***************************************************************************)
(* JsonMap: std::map<std::string, JsonNode>                                *)
(***************************************************************************)

MapHas(m, key) == \E k \in 1..Len(m) : m[k][1] = key

MapIndex(m, key) == CHOOSE k \in 1..Len(m) : m[k][1] = key

\* Where a new key goes: after every smaller key.
MapSlot(m, key) == Cardinality({k \in 1..Len(m) : StrLess(m[k][1], key)}) + 1

\* std::map::operator[]: the map with the key present (a default-constructed
\* node when it was absent).
MapSubscript(m, key) ==
    IF MapHas(m, key) THEN m
    ELSE LET p == MapSlot(m, key)
         IN  SubSeq(m, 1, p - 1) \o << <<key, nullNode>> >> \o SubSeq(m, p, Len(m))

\* std::vector::resize(count): default-constructed nodes are appended.
VectorResize(v, count) ==
    IF count <= Len(v) THEN SubSeq(v, 1, count)
    ELSE v \o [k \in 1..(count - Len(v)) |-> nullNode]

(***************************************************************************)
(* isCompact                                                               *)
(***************************************************************************)

RECURSIVE isCompact(_)
StructCompactIfSingle(n) == Len(n.data.m) = 0 \/ Len(n.data.m) = 1

StructIsCompact(n) ==
    LET propertyCount == Len(n.data.m)
    IN  IF propertyCount = 0 THEN TRUE
        ELSE IF propertyCount = 1 THEN isCompact(n.data.m[1][2])
        ELSE FALSE

isCompact(n) ==
    CASE getType(n) = "DATA_VECTOR" -> \A k \in 1..Len(n.data.v) : isCompact(n.data.v[k])
      [] getType(n) = "DATA_STRUCT" -> StructIsCompact(n)
      [] OTHER -> TRUE

(***************************************************************************)
(* TryBoolFromString                                                       *)
(***************************************************************************)

\* std::isspace in the classic locale, as boost::algorithm::trim uses it.
IsSpace(c) == c \in {" ", "\t", "\n", "\f", "\r"}

RECURSIVE TrimLeft(_)
TrimLeft(s) == IF s # <<>> /\ IsSpace(Head(s)) THEN TrimLeft(Tail(s)) ELSE s

RECURSIVE TrimRight(_)
TrimRight(s) == IF s # <<>> /\ IsSpace(s[Len(s)]) THEN TrimRight(SubSeq(s, 1, Len(s) - 1)) ELSE s

\* boost::algorithm::trim
Trim(s) == TrimRight(TrimLeft(s))

UpperCase == <<"A", "E", "F", "L", "R", "S", "T", "U">>
LowerCase == <<"a", "e", "f", "l", "r", "s", "t", "u">>

ToLowerChar(c) ==
    IF \E k \in 1..Len(UpperCase) : UpperCase[k] = c
        THEN LowerCase[CHOOSE k \in 1..Len(UpperCase) : UpperCase[k] = c]
        ELSE c

\* boost::algorithm::to_lower
ToLower(s) == [k \in 1..Len(s) |-> ToLowerChar(s[k])]

TryBoolNoTrim(n) ==
    IF getType(n) = "DATA_BOOL" THEN [success |-> TRUE, value |-> n.data.b]
    ELSE IF getType(n) = "DATA_STRING"
        THEN LET boolParamStr == ToLower(n.data.s)
             IN  IF boolParamStr = <<"t", "r", "u", "e">> THEN [success |-> TRUE, value |-> TRUE]
                 ELSE [success |-> boolParamStr = <<"f", "a", "l", "s", "e">>, value |-> FALSE]
    ELSE [success |-> FALSE, value |-> FALSE]

\* The returned value and the success flag the call leaves behind.
TryBoolFromString(n) ==
    IF getType(n) = "DATA_BOOL" THEN [success |-> TRUE, value |-> n.data.b]
    ELSE IF getType(n) = "DATA_STRING"
        THEN LET boolParamStr == ToLower(Trim(n.data.s))
             IN  IF boolParamStr = <<"t", "r", "u", "e">> THEN [success |-> TRUE, value |-> TRUE]
                 ELSE [success |-> boolParamStr = <<"f", "a", "l", "s", "e">>, value |-> FALSE]
    ELSE [success |-> FALSE, value |-> FALSE]

(***************************************************************************)
(* References into the tree, and operator[]                                *)
(*                                                                         *)
(* A returned reference is either the static nullNode (sentinel) or the    *)
(* place of a node in the tree: the path of steps from the node the call   *)
(* was made on.  err is "none" when the call returns, "AssertFail" when an *)
(* assert stops a build without NDEBUG, or the exception thrown.           *)
(***************************************************************************)

KeyStep(key) == [kind |-> "key", key |-> key, idx |-> 0]
IdxStep(idx) == [kind |-> "idx", key |-> <<>>, idx |-> idx]

RECURSIVE NodeAt(_, _)
NodeAt(n, path) ==
    IF path = <<>> THEN n
    ELSE IF Head(path).kind = "key"
        THEN NodeAt(n.data.m[MapIndex(n.data.m, Head(path).key)][2], Tail(path))
        ELSE NodeAt(n.data.v[Head(path).idx + 1], Tail(path))

\* The node a reference denotes.
Deref(tree, ref) == IF ref.sentinel THEN nullNode ELSE NodeAt(tree, ref.path)

Ref(path) == [sentinel |-> FALSE, path |-> path]
SentinelRef == [sentinel |-> TRUE, path |-> <<>>]

\* JsonNode::Struct() const: the assert, then the map or mapDefault.
StructConstAsserts(n) == getType(n) \in {"DATA_NULL", "DATA_STRUCT"}
StructConst(n) == IF getType(n) = "DATA_STRUCT" THEN n.data.m ELSE <<>>

\* JsonNode::Vector() const
VectorConstAsserts(n) == getType(n) \in {"DATA_NULL", "DATA_VECTOR"}
VectorConst(n) == IF getType(n) = "DATA_VECTOR" THEN n.data.v ELSE <<>>

\* JsonNode & operator[](const std::string & child)
IndexKey(n, child) ==
    LET s == setType(n, "DATA_STRUCT")
    IN  [err |-> "none",
         node |-> [s EXCEPT !.data = DataStruct(MapSubscript(s.data.m, child))],
         ref |-> Ref(<<KeyStep(child)>>)]

\* const JsonNode & operator[](const std::string & child) const
IndexKeyConst(n, child, ndebug) ==
    IF ~StructConstAsserts(n) /\ ~ndebug THEN [err |-> "AssertFail", ref |-> SentinelRef]
    ELSE IF MapHas(StructConst(n), child) THEN [err |-> "none", ref |-> Ref(<<KeyStep(child)>>)]
    ELSE [err |-> "none", ref |-> SentinelRef]

\* JsonNode & operator[](size_t child)
IndexIdxResizesToChild(n, child) ==
    LET s == setType(n, "DATA_VECTOR")
        v == IF child >= Len(s.data.v) THEN VectorResize(s.data.v, child) ELSE s.data.v
    IN  [err |-> "none", node |-> [s EXCEPT !.data = DataVector(v)], ref |-> Ref(<<IdxStep(child)>>)]

IndexIdx(n, child) ==
    LET s == setType(n, "DATA_VECTOR")
        v == IF child >= Len(s.data.v) THEN VectorResize(s.data.v, child + 1) ELSE s.data.v
    IN  [err |-> "none", node |-> [s EXCEPT !.data = DataVector(v)], ref |-> Ref(<<IdxStep(child)>>)]

\* const JsonNode & operator[](size_t child) const
IndexIdxConst(n, child, ndebug) ==
    IF ~VectorConstAsserts(n) /\ ~ndebug THEN [err |-> "AssertFail", ref |-> SentinelRef]
    ELSE IF child < Len(VectorConst(n)) THEN [err |-> "none", ref |-> Ref(<<IdxStep(child)>>)]
    ELSE [err |-> "none", ref |-> SentinelRef]

(***************************************************************************)
(* resolvePointer                                                          *)
(***************************************************************************)

\* pointer.find('/', 1) != std::string::npos
HasSplit(pointer) == \E k \in 2..Len(pointer) : pointer[k] = "/"

\* pointer.find('/', 1), as a zero-based position
SplitPos(pointer) == (CHOOSE k \in 2..Len(pointer) : pointer[k] = "/" /\ \A j \in 2..(k - 1) : pointer[j] # "/") - 1

\* pointer.substr(1, splitPos - 1); with npos the count reaches past the end.
PointerEntry(pointer) ==
    IF HasSplit(pointer) THEN SubSeq(pointer, 2, SplitPos(pointer)) ELSE SubSeq(pointer, 2, Len(pointer))

PointerRemainerDropped(pointer) == <<>>

\* splitPos == npos ? "" : pointer.substr(splitPos)
PointerRemainer(pointer) ==
    IF HasSplit(pointer) THEN SubSeq(pointer, SplitPos(pointer) + 1, Len(pointer)) ELSE <<>>

\* entry.find_first_not_of("0123456789") != npos
HasNonDigit(entry) == \E k \in 1..Len(entry) : ~IsDigit(entry[k])

AcceptsLeadingZero(entry) == FALSE

\* entry.size() > 1 && entry[0] == '0'
HasLeadingZero(entry) == Len(entry) > 1 /\ entry[1] = "0"

\* The exception the checks of an entry at a vector throw, "none" when they pass;
\* lexical_cast throws on the empty string.
VectorEntryError(entry) ==
    IF HasNonDigit(entry) THEN "InvalidPointer"
    ELSE IF HasLeadingZero(entry) THEN "InvalidPointer"
    ELSE IF entry = <<>> THEN "bad_lexical_cast"
    ELSE "none"

\* The result's reference seen from the parent of the node it was found under.
Under(step, r) == IF r.ref.sentinel THEN r.ref ELSE Ref(<<step>> \o r.ref.path)

\* The mutable instantiation: the result carries the node as the call leaves it.
RECURSIVE resolvePointer(_, _, _)
resolvePointer(in, pointer, ndebug) ==
    IF pointer = <<>> THEN [err |-> "none", node |-> in, ref |-> Ref(<<>>)]
    ELSE IF pointer[1] # "/" /\ ~ndebug THEN [err |-> "AssertFail", node |-> in, ref |-> Ref(<<>>)]
    ELSE
    LET entry == PointerEntry(pointer)
        remainer == PointerRemainer(pointer)
        isVector == getType(in) = "DATA_VECTOR"
        index == DigitsValue(entry)
    IN  IF isVector /\ VectorEntryError(entry) # "none"
            THEN [err |-> VectorEntryError(entry), node |-> in, ref |-> Ref(<<>>)]
        ELSE IF isVector /\ Len(in.data.v) > index
            THEN LET r == resolvePointer(in.data.v[index + 1], remainer, ndebug)
                 IN  [err |-> r.err,
                      node |-> [in EXCEPT !.data = DataVector([in.data.v EXCEPT ![index + 1] = r.node])],
                      ref |-> Under(IdxStep(index), r)]
        ELSE LET sub == IndexKey(in, entry)
                 at == MapIndex(sub.node.data.m, entry)
                 r == resolvePointer(sub.node.data.m[at][2], remainer, ndebug)
             IN  [err |-> r.err,
                  node |-> [sub.node EXCEPT !.data =
                               DataStruct([sub.node.data.m EXCEPT ![at] = <<entry, r.node>>])],
                  ref |-> Under(KeyStep(entry), r)]

\* The const instantiation: the tree is only read.
RECURSIVE resolvePointerConst(_, _, _)
resolvePointerConst(in, pointer, ndebug) ==
    IF pointer = <<>> THEN [err |-> "none", ref |-> Ref(<<>>)]
    ELSE IF pointer[1] # "/" /\ ~ndebug THEN [err |-> "AssertFail", ref |-> Ref(<<>>)]
    ELSE
    LET entry == PointerEntry(pointer)
        remainer == PointerRemainer(pointer)
        isVector == getType(in) = "DATA_VECTOR"
        index == DigitsValue(entry)
    IN  IF isVector /\ VectorEntryError(entry) # "none"
            THEN [err |-> VectorEntryError(entry), ref |-> Ref(<<>>)]
        ELSE IF isVector /\ Len(in.data.v) > index
            THEN LET r == resolvePointerConst(in.data.v[index + 1], remainer, ndebug)
                 IN  [err |-> r.err, ref |-> Under(IdxStep(index), r)]
        ELSE LET sub == IndexKeyConst(in, entry, ndebug)
             IN  IF sub.err # "none" THEN sub
                 ELSE IF sub.ref.sentinel
                     THEN [err |-> resolvePointerConst(nullNode, remainer, ndebug).err, ref |-> SentinelRef]
                 ELSE LET r == resolvePointerConst(NodeAt(in, sub.ref.path), remainer, ndebug)
                      IN  [err |-> r.err, ref |-> Under(KeyStep(entry), r)]

(***************************************************************************)
(* JsonWriter                                                              *)
(*                                                                         *)
(* The writer's state is the record w: the text written so far (out), the  *)
(* indentation (prefix) and compactMode.  The requested mode (compact) is  *)
(* fixed at construction.  w.log is a history of the writeNode calls in    *)
(* the order they return: it records, and never decides, what is written.  *)
(***************************************************************************)

escaped == <<"\"", "\\", "<BS>", "\f", "\n", "\r", "\t", "/">>

escaped_code == <<"\"", "\\", "b", "f", "n", "r", "t", "/">>

IsEscapedCode(c) == \E k \in 1..Len(escaped_code) : escaped_code[k] = c

\* escaped.find(c) != npos
IsEscaped(c) == \E k \in 1..Len(escaped) : escaped[k] = c

EscapedPos(c) == CHOOSE k \in 1..Len(escaped) : escaped[k] = c

\* The scan of writeString: pos and start are zero-based as in the source.
RECURSIVE writeStringScan(_, _, _, _)
writeStringNoEscape(out, string, pos, start) == out \o string

writeStringScan(out, string, pos, start) ==
    IF pos >= Len(string) THEN out \o SubSeq(string, start + 1, pos)
    ELSE IF string[pos + 1] = "\\" /\ pos + 1 < Len(string) /\ IsEscapedCode(string[pos + 2])
        THEN writeStringScan(out, string, pos + 2, start)
    ELSE IF IsEscaped(string[pos + 1])
        THEN writeStringScan(out \o SubSeq(string, start + 1, pos) \o <<"\\", escaped_code[EscapedPos(string[pos + 1])]>>,
                             string, pos + 1, pos + 1)
    ELSE writeStringScan(out, string, pos + 1, start)

writeString(w, string) ==
    [w EXCEPT !.out = writeStringScan(w.out \o <<"\"">>, string, 0, 0) \o <<"\"">>]

Put(w, text) == [w EXCEPT !.out = w.out \o text]

\* boost::algorithm::join(flags, ", ")
RECURSIVE JoinFlags(_)
JoinFlags(flags) ==
    IF flags = <<>> THEN <<>>
    ELSE IF Len(flags) = 1 THEN flags[1]
    ELSE flags[1] \o <<",", " ">> \o JoinFlags(Tail(flags))

\* The comment lines and the indentation writeEntry puts before an entry
\* when compactMode is off.
EntryLead(w, node) ==
    LET w1 == IF node.meta # <<>>
                  THEN Put(w, w.prefix \o <<" ", "/", "/", " ">> \o node.meta \o <<"\n">>)
                  ELSE w
        w2 == IF node.flags # <<>>
                  THEN Put(w1, w1.prefix \o <<" ", "/", "/", " ", "f", "l", "a", "g", "s", ":", " ">>
                               \o JoinFlags(node.flags) \o <<"\n">>)
                  ELSE w1
    IN  Put(w2, w2.prefix)

\* if(compact && !compactMode && node.isCompact())
EntersWhenNotCompact(compact, compactMode, node) == ~compact /\ ~compactMode /\ isCompact(node)

EntersForAnyNode(compact, compactMode, node) == compact /\ ~compactMode

EntersCompactMode(compact, compactMode, node) == compact /\ ~compactMode /\ isCompact(node)

\* compactMode left as the body of writeNode set it.
LeavesMode(w, originalMode) == w

\* compactMode = originalMode;
RestoreMode(w, originalMode) == [w EXCEPT !.compactMode = originalMode]

RECURSIVE writeNode(_, _, _)
RECURSIVE writeVectorFrom(_, _, _, _)
RECURSIVE writeStructFrom(_, _, _, _)

\* writeEntry(JsonVector::const_iterator)
writeEntryVector(w, compact, entry) ==
    IF ~w.compactMode
        THEN writeNode(EntryLead(w, entry), compact, entry)
        ELSE writeNode(w, compact, entry)

\* writeEntry(JsonMap::const_iterator)
writeEntryStruct(w, compact, entry) ==
    IF ~w.compactMode
        THEN writeNode(Put(writeString(EntryLead(w, entry[2]), entry[1]), <<" ", ":", " ">>), compact, entry[2])
        ELSE writeNode(Put(writeString(w, entry[1]), <<" ", ":", " ">>), compact, entry[2])

\* The while loop of writeContainer, from the entry at position k.
writeVectorFrom(w, compact, v, k) ==
    IF k > Len(v) THEN w
    ELSE IF w.compactMode
        THEN writeVectorFrom(writeEntryVector(Put(w, <<",", " ">>), compact, v[k]), compact, v, k + 1)
        ELSE writeVectorFrom(writeEntryVector(Put(w, <<",", "\n">>), compact, v[k]), compact, v, k + 1)

writeStructFrom(w, compact, m, k) ==
    IF k > Len(m) THEN w
    ELSE IF w.compactMode
        THEN writeStructFrom(writeEntryStruct(Put(w, <<",", " ">>), compact, m[k]), compact, m, k + 1)
        ELSE writeStructFrom(writeEntryStruct(Put(w, <<",", "\n">>), compact, m[k]), compact, m, k + 1)

ContainerEnd(w) ==
    [Put(w, IF w.compactMode THEN <<>> ELSE <<"\n">>) EXCEPT !.prefix = SubSeq(w.prefix, 1, Len(w.prefix) - 1)]

\* writeContainer over a vector's elements
writeContainerVector(w, compact, v) ==
    IF v = <<>> THEN w
    ELSE LET w1 == [w EXCEPT !.prefix = w.prefix \o <<"\t">>]
         IN  ContainerEnd(writeVectorFrom(writeEntryVector(w1, compact, v[1]), compact, v, 2))

\* writeContainer over a map's entries
writeContainerStruct(w, compact, m) ==
    IF m = <<>> THEN w
    ELSE LET w1 == [w EXCEPT !.prefix = w.prefix \o <<"\t">>]
         IN  ContainerEnd(writeStructFrom(writeEntryStruct(w1, compact, m[1]), compact, m, 2))

Open(w, bracket) == Put(w, <<bracket>> \o (IF w.compactMode THEN <<" ">> ELSE <<"\n">>))

Close(w, bracket) == Put(w, (IF w.compactMode THEN <<" ">> ELSE w.prefix) \o <<bracket>>)

writeNode(w, compact, node) ==
    LET originalMode == w.compactMode
        w0 == [w EXCEPT !.compactMode = IF EntersCompactMode(compact, w.compactMode, node) THEN TRUE ELSE @]
        w1 == CASE getType(node) = "DATA_NULL" -> Put(w0, <<"n", "u", "l", "l">>)
                [] getType(node) = "DATA_BOOL" ->
                      IF node.data.b THEN Put(w0, <<"t", "r", "u", "e">>) ELSE Put(w0, <<"f", "a", "l", "s", "e">>)
                [] getType(node) = "DATA_FLOAT" -> Put(w0, FloatText(node.data.f))
                [] getType(node) = "DATA_STRING" -> writeString(w0, node.data.s)
                [] getType(node) = "DATA_VECTOR" ->
                      Close(writeContainerVector(Open(w0, "["), compact, node.data.v), "]")
                [] getType(node) = "DATA_STRUCT" ->
                      Close(writeContainerStruct(Open(w0, "{"), compact, node.data.m), "}")
                [] getType(node) = "DATA_INTEGER" -> Put(w0, IntText(node.data.i))
        w2 == RestoreMode(w1, originalMode)
    IN  [w2 EXCEPT !.log = Append(@, [node |-> node, from |-> Len(w.out), to |-> Len(w1.out),
                                      modeIn |-> originalMode, modeBody |-> w0.compactMode,
                                      modeOut |-> w2.compactMode,
                                      prefixIn |-> w.prefix, prefixOut |-> w2.prefix])]

\* JsonWriter::JsonWriter(output, compact); compactMode starts false and the
\* prefix empty (the members' initializers).
NewWriter == [out |-> <<>>, prefix |-> <<>>, compactMode |-> FALSE, log |-> <<>>]

\* JsonNode::toJson(compact): the writer as writeNode leaves it; .out is out.str().
toJson(node, compact) == writeNode(NewWriter, compact, node)

(***************************************************************************)
(* Inputs                                                                  *)
(***************************************************************************)

\* Mutating calls made on one node in a run.
MaxMutations == 1

\* Largest index handed to operator[](size_t).
MaxIndex == 2

\* Longest string of the escape alphabet handed to the writer.
MaxStrLen == 2

IntegerNode(i) == JsonNode(DataInteger(i))
FloatNode(f) == JsonNode(DataFloat(f))
BoolNode(b) == JsonNode(DataBool(b))
StringNode(s) == JsonNode(DataString(s))
VectorNode(v) == JsonNode(DataVector(v))
StructNode(m) == JsonNode(DataStruct(m))

\* Sequences of at most n elements of S.
SeqsUpTo(S, n) == UNION {[1..k -> S] : k \in 0..n}

KeyA == <<"a">>
KeyB == <<"b">>

\* The maps over the keys a and b with values in S.
MapsOver(S) ==
    {<<>>} \cup {<< <<KeyA, x>> >> : x \in S} \cup {<< <<KeyB, x>> >> : x \in S}
           \cup {<< <<KeyA, x>>, <<KeyB, y>> >> : x \in S, y \in S}

\* Texts TryBoolFromString is tried on.
BoolTexts ==
    { <<>>, <<"t", "r", "u", "e">>, <<"T", "R", "U", "E">>, <<" ", " ", "T", "R", "U", "E", " ", " ">>,
      <<"T", "r", "u", "e">>, <<"\t", "t", "r", "u", "e", "\n">>, <<"f", "a", "l", "s", "e">>,
      <<" ", "F", "a", "l", "s", "e">>, <<"F", "A", "L", "S", "E", "\r">>, <<"y", "e", "s">>,
      <<"t", "r", "u">>, <<"t", " ", "r", "u", "e">>, <<"t", "r", "u", "e", " ", "x">>,
      <<"f", "a", "l", "s", "e", "s">>, <<" ">> }

ScalarNodes ==
    {nullNode, BoolNode(TRUE), BoolNode(FALSE)}
        \cup {IntegerNode(i) : i \in {-3, 0, 5}}
        \cup {FloatNode(f) : f \in {-39, -30, -5, 0, 5, 39, 50}}
        \cup {StringNode(s) : s \in BoolTexts}

PointerLeaves == {IntegerNode(10), IntegerNode(20)}

PointerInner ==
    {IntegerNode(10), VectorNode(<<IntegerNode(10), IntegerNode(20)>>), StructNode(<< <<KeyB, IntegerNode(10)>> >>)}

ContainerNodes ==
    {VectorNode(v) : v \in SeqsUpTo(PointerInner, 2)} \cup {StructNode(m) : m \in MapsOver(PointerInner)}

\* The nodes the value model and the pointer resolver are run on.
ValueNodes == ScalarNodes \cup ContainerNodes

Keys == {KeyA, KeyB}

Pointers ==
    { <<>>, <<"/">>, <<"a">>, <<"/", "a">>, <<"/", "b">>, <<"/", "0">>, <<"/", "1">>, <<"/", "5">>,
      <<"/", "0", "1">>, <<"/", "1", "x">>,
      <<"/", "a", "/", "0">>, <<"/", "a", "/", "5">>, <<"/", "a", "/", "0", "1">>, <<"/", "a", "/", "b">>,
      <<"/", "a", "/", "x">>, <<"/", "0", "/", "b">>, <<"/", "1", "/", "1">>, <<"/", "1", "/", "2">>,
      <<"/", "a", "/">> }

(***************************************************************************)
(* The state machine                                                       *)
(***************************************************************************)

VARIABLES
    node,       \* the JsonNode the calls are made on
    ndebug,     \* whether the build defines NDEBUG (assert compiled out)
    mutations,  \* mutating calls made so far
    call,       \* the last call: its name, its arguments, the node before it
    ret         \* what the last call returned or threw

vars == <<node, ndebug, mutations, call, ret>>

Call(op, str, num, type, flag) ==
    [op |-> op, before |-> node, str |-> str, num |-> num, type |-> type, flag |-> flag]

NoRet ==
    [err |-> "none", ref |-> Ref(<<>>), out |-> <<>>, log |-> <<>>, compactMode |-> FALSE, prefix |-> <<>>,
     value |-> FALSE, success |-> FALSE]

RefRet(r) == [NoRet EXCEPT !.err = r.err, !.ref = r.ref]

InitValue ==
    /\ node \in ValueNodes
    /\ ndebug \in BOOLEAN
    /\ mutations = 0
    /\ call = [op |-> "construct", before |-> node, str |-> <<>>, num |-> 0, type |-> getType(node), flag |-> FALSE]
    /\ ret = NoRet

\* node.setType(Type)
SetType(Type) ==
    /\ mutations < MaxMutations
    /\ node' = setType(node, Type)
    /\ call' = Call("setType", <<>>, 0, Type, FALSE)
    /\ ret' = NoRet
    /\ mutations' = mutations + 1
    /\ UNCHANGED ndebug

\* node[child], mutable
SubscriptKey(child) ==
    /\ mutations < MaxMutations
    /\ LET r == IndexKey(node, child)
       IN  /\ node' = r.node
           /\ ret' = RefRet(r)
    /\ call' = Call("operator[key]", child, 0, "", FALSE)
    /\ mutations' = mutations + 1
    /\ UNCHANGED ndebug

\* node[child], const
SubscriptKeyConst(child) ==
    /\ ret' = RefRet(IndexKeyConst(node, child, ndebug))
    /\ call' = Call("operator[key] const", child, 0, "", FALSE)
    /\ UNCHANGED <<node, ndebug, mutations>>

\* node[child] with a size_t, mutable
SubscriptIndex(child) ==
    /\ mutations < MaxMutations
    /\ LET r == IndexIdx(node, child)
       IN  /\ node' = r.node
           /\ ret' = RefRet(r)
    /\ call' = Call("operator[index]", <<>>, child, "", FALSE)
    /\ mutations' = mutations + 1
    /\ UNCHANGED ndebug

\* node[child] with a size_t, const
SubscriptIndexConst(child) ==
    /\ ret' = RefRet(IndexIdxConst(node, child, ndebug))
    /\ call' = Call("operator[index] const", <<>>, child, "", FALSE)
    /\ UNCHANGED <<node, ndebug, mutations>>

\* node.resolvePointer(jsonPointer), mutable
ResolvePointer(jsonPointer) ==
    /\ mutations < MaxMutations
    /\ LET r == resolvePointer(node, jsonPointer, ndebug)
       IN  /\ node' = r.node
           /\ ret' = RefRet(r)
    /\ call' = Call("resolvePointer", jsonPointer, 0, "", FALSE)
    /\ mutations' = mutations + 1
    /\ UNCHANGED ndebug

\* node.resolvePointer(jsonPointer), const
ResolvePointerConst(jsonPointer) ==
    /\ ret' = RefRet(resolvePointerConst(node, jsonPointer, ndebug))
    /\ call' = Call("resolvePointer const", jsonPointer, 0, "", FALSE)
    /\ UNCHANGED <<node, ndebug, mutations>>

\* node.TryBoolFromString(success)
TryBool ==
    /\ LET r == TryBoolFromString(node)
       IN  ret' = [NoRet EXCEPT !.value = r.value, !.success = r.success]
    /\ call' = Call("TryBoolFromString", <<>>, 0, "", FALSE)
    /\ UNCHANGED <<node, ndebug, mutations>>

NextValue ==
    \/ \E Type \in JsonType : SetType(Type)
    \/ \E child \in Keys : SubscriptKey(child)
    \/ \E child \in Keys : SubscriptKeyConst(child)
    \/ \E child \in 0..MaxIndex : SubscriptIndex(child)
    \/ \E child \in 0..MaxIndex : SubscriptIndexConst(child)
    \/ \E jsonPointer \in Pointers : ResolvePointer(jsonPointer)
    \/ \E jsonPointer \in Pointers : ResolvePointerConst(jsonPointer)
    \/ TryBool

Spec == InitValue /\ [][NextValue]_vars

(***************************************************************************)
(* The writer's runs                                                       *)
(***************************************************************************)

EscapeAlphabet == {"a", "n", "t", "\\", "\"", "/", "\n", "\t"}

Commented(n, meta, flags) == [n EXCEPT !.meta = meta, !.flags = flags]

WriterLeaves ==
    { nullNode, BoolNode(TRUE), IntegerNode(10), IntegerNode(-3), FloatNode(39), FloatNode(-5),
      StringNode(<<"x">>), StringNode(<<"a", "\"", "\n">>),
      Commented(IntegerNode(20), <<"m">>, <<>>),
      Commented(StringNode(<<"y">>), <<>>, << <<"f">>, <<"g">> >>) }

WriterInner ==
    { IntegerNode(10),
      VectorNode(<<>>),
      VectorNode(<<StringNode(<<"x">>), StringNode(<<"y">>)>>),
      StructNode(<< <<KeyA, IntegerNode(10)>>, <<KeyB, StringNode(<<"x">>)>> >>),
      Commented(StructNode(<< <<KeyA, Commented(IntegerNode(10), <<"m">>, << <<"f">> >>)>> >>), <<"m">>, <<>>) }

WriterDeep ==
    { StructNode(<< <<KeyA, IntegerNode(10)>>, <<KeyB, VectorNode(<<x, IntegerNode(20)>>)>> >>) : x \in WriterInner }

\* {"name": "Ann", "tags": ["x", "y"]}
NameTags ==
    StructNode(<< << <<"n", "a", "m", "e">>, StringNode(<<"A", "n", "n">>) >>,
                  << <<"t", "a", "g", "s">>, VectorNode(<<StringNode(<<"x">>), StringNode(<<"y">>)>>) >> >>)

WriterNodes ==
    {StringNode(s) : s \in SeqsUpTo(EscapeAlphabet, MaxStrLen)}
        \cup WriterLeaves \cup {FloatNode(50), NameTags}
        \cup {VectorNode(v) : v \in SeqsUpTo(WriterLeaves, 2)} \cup {StructNode(m) : m \in MapsOver(WriterLeaves)}
        \cup {VectorNode(v) : v \in SeqsUpTo(WriterInner, 2)} \cup {StructNode(m) : m \in MapsOver(WriterInner)}
        \cup {VectorNode(v) : v \in SeqsUpTo(WriterDeep, 1)} \cup {StructNode(m) : m \in MapsOver(WriterDeep)}

InitWriter ==
    /\ node \in WriterNodes
    /\ ndebug \in BOOLEAN
    /\ mutations = 0
    /\ call = [op |-> "construct", before |-> node, str |-> <<>>, num |-> 0, type |-> getType(node), flag |-> FALSE]
    /\ ret = NoRet

\* node.toJson(compact)
ToJson(compact) ==
    /\ LET w == toJson(node, compact)
       IN  ret' = [NoRet EXCEPT !.out = w.out, !.log = w.log, !.compactMode = w.compactMode, !.prefix = w.prefix]
    /\ call' = Call("toJson", <<>>, 0, "", compact)
    /\ UNCHANGED <<node, ndebug, mutations>>

\* node.isCompact()
IsCompact ==
    /\ ret' = [NoRet EXCEPT !.value = isCompact(node)]
    /\ call' = Call("isCompact", <<>>, 0, "", FALSE)
    /\ UNCHANGED <<node, ndebug, mutations>>

NextWriter ==
    \/ \E compact \in BOOLEAN : ToJson(compact)
    \/ IsCompact

SpecWriter == InitWriter /\ [][NextWriter]_vars

(***************************************************************************)
(* Properties                                                              *)
(***************************************************************************)

HasChar(text, c) == \E k \in 1..Len(text) : text[k] = c

\* The start of a comment, " // ", occurs in the text.
HasComment(text) == \E k \in 1..(Len(text) - 1) : text[k] = "/" /\ text[k + 1] = "/"

OneLine(text) == ~HasChar(text, "\n") /\ ~HasChar(text, "\t") /\ ~HasComment(text)

IsTabs(text) == \A k \in 1..Len(text) : text[k] = "\t"

StartsWith(text, lead) == Len(text) >= Len(lead) /\ SubSeq(text, 1, Len(lead)) = lead

EndsWith(text, tail) == Len(text) >= Len(tail) /\ SubSeq(text, Len(text) - Len(tail) + 1, Len(text)) = tail

\* A Mapping with two or more entries occurs in the tree.
RECURSIVE HasWideStruct(_)
HasWideStruct(n) ==
    \/ Len(n.data.m) >= 2
    \/ \E k \in 1..Len(n.data.m) : HasWideStruct(n.data.m[k][2])
    \/ \E k \in 1..Len(n.data.v) : HasWideStruct(n.data.v[k])

\* A node of the tree, or an entry of a non-empty container, carries a comment.
RECURSIVE HasComments(_)
HasComments(n) ==
    \/ n.meta # <<>>
    \/ n.flags # <<>>
    \/ \E k \in 1..Len(n.data.m) : HasComments(n.data.m[k][2])
    \/ \E k \in 1..Len(n.data.v) : HasComments(n.data.v[k])

CompactCall == call.op = "toJson" /\ call.flag
PrettyCall == call.op = "toJson" /\ ~call.flag

\* { "name" : "Ann", "tags" : [ "x", "y" ] }
NameTagsOneLine ==
    << "{", " ", "\"", "n", "a", "m", "e", "\"", " ", ":", " ", "\"", "A", "n", "n", "\"", ",", " ",
       "\"", "t", "a", "g", "s", "\"", " ", ":", " ", "[", " ", "\"", "x", "\"", ",", " ", "\"", "y", "\"", " ", "]",
       " ", "}" >>

\* The same document as toJson(true) writes it: the two-entry Mapping on
\* indented lines, the array inside it on one line.
NameTagsWritten ==
    << "{", "\n",
       "\t", "\"", "n", "a", "m", "e", "\"", " ", ":", " ", "\"", "A", "n", "n", "\"", ",", "\n",
       "\t", "\"", "t", "a", "g", "s", "\"", " ", ":", " ", "[", " ", "\"", "x", "\"", ",", " ", "\"", "y", "\"", " ", "]",
       "\n", "}" >>

\* C1 as stated: toJson(true) writes every tree without newline, tab or
\* comment, and the name/tags document on one line.
C1_CompactForEveryTree ==
    CompactCall =>
        /\ OneLine(ret.out)
        /\ (node = NameTags => ret.out = NameTagsOneLine)

\* C1, amended: toJson(true) writes a tree without newline, tab or comment
\* when the tree is compact (no Mapping in it has two or more entries); a
\* tree that is not compact is written on several lines, the name/tags
\* document as NameTagsWritten.
C1_CompactForCompactTrees ==
    CompactCall =>
        /\ (~HasWideStruct(node) => OneLine(ret.out))
        /\ (HasWideStruct(node) => HasChar(ret.out, "\n"))
        /\ (node = NameTags => ret.out = NameTagsWritten)

\* A compact tree with commented elements was written by toJson(true).
C1_Witness ==
    /\ CompactCall
    /\ node = VectorNode(<<Commented(IntegerNode(20), <<"m">>, <<>>), StringNode(<<"x">>)>>)
    /\ ret.out = <<"[", " ", "2", "0", ",", " ", "\"", "x", "\"", " ", "]">>

\* The text one writeNode call wrote.
Written(entry) == SubSeq(ret.out, entry.from + 1, entry.to)

\* C2 as stated: under toJson(false) every subtree whose root is compact and
\* that is not inside a compact subtree is written on one line, without comments.
C2_PrettyEntersCompactMode ==
    PrettyCall =>
        \A k \in 1..Len(ret.log) :
            (isCompact(ret.log[k].node) /\ ~ret.log[k].modeIn) => OneLine(Written(ret.log[k]))

\* A node written outside compactMode: a non-empty container goes on
\* several lines, its entries indented one tab deeper than the container.
WrittenMultiLine(entry) ==
    LET text == Written(entry)
        type == getType(entry.node)
        open == IF type = "DATA_VECTOR" THEN "[" ELSE "{"
        close == IF type = "DATA_VECTOR" THEN "]" ELSE "}"
    IN  /\ type \in {"DATA_VECTOR", "DATA_STRUCT"}
        /\ IsTabs(entry.prefixIn)
        /\ StartsWith(text, <<open, "\n">> \o entry.prefixIn \o <<"\t">>)
        /\ EndsWith(text, <<"\n">> \o entry.prefixIn \o <<close>>)

\* C2, amended: it is under toJson(true) that writeNode enters compactMode for
\* every subtree whose root is compact and that is not inside a compact
\* subtree; the subtree is then written on one line without comments, and
\* every node that is not compact is written on several tab-indented lines.
\* Under toJson(false) compactMode is never entered.
C2_CompactEntersCompactMode ==
    /\ CompactCall =>
          \A k \in 1..Len(ret.log) :
              LET entry == ret.log[k]
              IN  /\ entry.modeBody = (entry.modeIn \/ isCompact(entry.node))
                  /\ entry.modeBody => OneLine(Written(entry))
                  /\ ~entry.modeBody => WrittenMultiLine(entry)
    /\ PrettyCall => \A k \in 1..Len(ret.log) : ~ret.log[k].modeBody

\* toJson(true) wrote a Mapping that is not compact, and inside it a compact
\* Mapping whose own entry carries comments.
C2_Witness ==
    /\ CompactCall
    /\ \E k \in 1..Len(ret.log) : ~ret.log[k].modeBody
    /\ \E k \in 1..Len(ret.log) :
          /\ ret.log[k].modeBody /\ ~ret.log[k].modeIn
          /\ getType(ret.log[k].node) = "DATA_STRUCT"
          /\ Len(ret.log[k].node.data.m) = 1
          /\ HasComments(ret.log[k].node)

(***************************************************************************)
(* The writer's state over the calls of one toJson                         *)
(***************************************************************************)

\* The nodes directly under a container, in the order they are written.
Children(n) ==
    IF getType(n) = "DATA_VECTOR" THEN n.data.v
    ELSE IF getType(n) = "DATA_STRUCT" THEN [k \in 1..Len(n.data.m) |-> n.data.m[k][2]]
    ELSE <<>>

RECURSIVE Size(_)
RECURSIVE SizeFrom(_, _)
\* The number of nodes of a tree.
Size(n) == 1 + SizeFrom(Children(n), 1)

SizeFrom(children, k) ==
    IF k > Len(children) THEN 0 ELSE Size(children[k]) + SizeFrom(children, k + 1)

RECURSIVE Visits(_, _, _, _)
RECURSIVE VisitsFrom(_, _, _, _, _)
\* The nodes of a tree in the order their writeNode calls return (children
\* before their container), each with its nesting depth and the position in
\* that order of the container it sits in (0 for the root); base counts the
\* calls that returned before the tree was begun.
Visits(n, depth, base, parent) ==
    VisitsFrom(Children(n), 1, depth + 1, base, base + Size(n))
        \o << [node |-> n, depth |-> depth, parent |-> parent] >>

VisitsFrom(children, k, depth, base, parent) ==
    IF k > Len(children) THEN <<>>
    ELSE Visits(children[k], depth, base, parent)
             \o VisitsFrom(children, k + 1, depth, base + Size(children[k]), parent)

\* C11: every writeNode call returns with compactMode and the prefix as it
\* found them, for any tree and either value of compact; so every node, a
\* sibling written after a compact subtree included, is entered in the mode
\* of the container it sits in, and at nesting depth d the prefix is exactly
\* d tabs; a container written outside compactMode puts its entries one tab
\* deeper than itself.
C11_WriterStateBalanced ==
    call.op = "toJson" =>
        LET visits == Visits(node, 0, 0, 0)
        IN  /\ Len(ret.log) = Len(visits)
            /\ ret.compactMode = FALSE
            /\ ret.prefix = <<>>
            /\ \A k \in 1..Len(ret.log) :
                  LET entry == ret.log[k]
                      visit == visits[k]
                  IN  /\ entry.node = visit.node
                      /\ entry.modeOut = entry.modeIn
                      /\ entry.prefixOut = entry.prefixIn
                      /\ entry.modeIn = (IF visit.parent = 0 THEN FALSE ELSE ret.log[visit.parent].modeBody)
                      /\ Len(entry.prefixIn) = visit.depth
                      /\ IsTabs(entry.prefixIn)
                      /\ (~entry.modeBody /\ Children(entry.node) # <<>>) => WrittenMultiLine(entry)

\* toJson(true) wrote, inside a Sequence that is not compact, a Sequence in
\* compactMode and after it a sibling Mapping outside compactMode, both one
\* level deep.
C11_Witness ==
    /\ CompactCall
    /\ getType(node) = "DATA_VECTOR"
    /\ Len(node.data.v) = 2
    /\ \E j, k \in 1..Len(ret.log) :
          /\ j < k
          /\ ret.log[j].node = node.data.v[1]
          /\ ret.log[k].node = node.data.v[2]
          /\ getType(ret.log[j].node) = "DATA_VECTOR"
          /\ Len(ret.log[j].node.data.v) = 2
          /\ ret.log[j].modeBody /\ ~ret.log[j].modeIn /\ ~ret.log[j].modeOut
          /\ getType(ret.log[k].node) = "DATA_STRUCT"
          /\ ~ret.log[k].modeIn /\ ~ret.log[k].modeBody
          /\ ret.log[j].prefixIn = <<"\t">>
          /\ ret.log[k].prefixOut = <<"\t">>

(***************************************************************************)
(* Pointers, read as the path they name                                    *)
(***************************************************************************)

\* The segments of a pointer that is empty or begins with '/'.
RECURSIVE Segments(_)
Segments(pointer) ==
    IF pointer = <<>> THEN <<>>
    ELSE LET rest == Tail(pointer)
             stop == IF HasChar(rest, "/")
                         THEN (CHOOSE k \in 1..Len(rest) : rest[k] = "/" /\ ~HasChar(SubSeq(rest, 1, k - 1), "/")) - 1
                         ELSE Len(rest)
         IN  <<SubSeq(rest, 1, stop)>> \o Segments(SubSeq(rest, stop + 1, Len(rest)))

WellFormedPointer(pointer) == pointer = <<>> \/ pointer[1] = "/"

AllDigits(seg) == \A k \in 1..Len(seg) : seg[k] \in {"0", "1", "2", "3", "4", "5", "6", "7", "8", "9"}

\* A decimal index: digits, no leading zero unless it is "0".
DecimalIndex(seg) == seg # <<>> /\ AllDigits(seg) /\ (Len(seg) = 1 \/ seg[1] # "0")

\* A segment C4 speaks of: a non-digit in it, or a leading zero before more digits.
MalformedIndex(seg) == ~AllDigits(seg) \/ (Len(seg) > 1 /\ seg[1] = "0")

\* Where following the segments from n ends: "found" at the node they name,
\* "absent" at a Mapping without the key, "beyond" at a Sequence whose length
\* the decimal index reaches or exceeds, "malformed" at a Sequence with a
\* malformed index, "other" elsewhere.  path is the place reached.
RECURSIVE Follow(_, _, _)
Follow(n, segs, path) ==
    IF segs = <<>> THEN [kind |-> "found", path |-> path]
    ELSE LET seg == Head(segs)
         IN  IF getType(n) = "DATA_STRUCT"
                 THEN IF MapHas(n.data.m, seg)
                          THEN Follow(n.data.m[MapIndex(n.data.m, seg)][2], Tail(segs), Append(path, KeyStep(seg)))
                          ELSE [kind |-> "absent", path |-> path]
             ELSE IF getType(n) = "DATA_VECTOR"
                 THEN IF MalformedIndex(seg) THEN [kind |-> "malformed", path |-> path]
                      ELSE IF ~DecimalIndex(seg) THEN [kind |-> "other", path |-> path]
                      ELSE IF DigitsValue(seg) < Len(n.data.v)
                          THEN Follow(n.data.v[DigitsValue(seg) + 1], Tail(segs),
                                      Append(path, IdxStep(DigitsValue(seg))))
                          ELSE [kind |-> "beyond", path |-> path]
             ELSE [kind |-> "other", path |-> path]

ResolveCall == call.op \in {"resolvePointer", "resolvePointer const"} /\ WellFormedPointer(call.str)

Followed == Follow(call.before, Segments(call.str), <<>>)

\* {"a": [10, 20]}
TenTwenty == StructNode(<< <<KeyA, VectorNode(<<IntegerNode(10), IntegerNode(20)>>)>> >>)

\* C3: a well-formed index at or past the end of a Sequence raises no error,
\* returns that Sequence and leaves the tree as it was (both forms).
C3_BeyondEndReturnsSequence ==
    (ResolveCall /\ Followed.kind = "beyond") =>
        /\ ret.err = "none"
        /\ ret.ref = Ref(Followed.path)
        /\ node = call.before

\* C4: a malformed index at a Sequence (a non-digit, or a leading zero before
\* more digits) fails with "Invalid Json pointer" and the tree is as it was
\* before the call, in the mutable form too.
C4_MalformedIndexThrows ==
    (ResolveCall /\ Followed.kind = "malformed") =>
        /\ ret.err = "InvalidPointer"
        /\ node = call.before

\* The mutable form met /a/01 on {"a": [10, 20]}.
C4_Witness ==
    /\ call.op = "resolvePointer"
    /\ call.before = TenTwenty
    /\ call.str = <<"/", "a", "/", "0", "1">>
    /\ ret.err = "InvalidPointer"

\* C9: the const form follows the pointer segment by segment and changes
\* nothing: it returns the node the segments name, or the null sentinel
\* from a Mapping without the key; the mutable form returns the same node,
\* and changes nothing, when every segment names an existing key or element.
C9_ResolveFollowsSegments ==
    /\ call.op = "resolvePointer const" => node = call.before
    /\ (ResolveCall /\ Followed.kind = "found") =>
          /\ ret.err = "none"
          /\ ret.ref = Ref(Followed.path)
          /\ node = call.before
    /\ (ResolveCall /\ call.op = "resolvePointer const" /\ Followed.kind = "absent") =>
          /\ ret.err = "none"
          /\ ret.ref = SentinelRef
    /\ (ResolveCall /\ call.before = TenTwenty /\ call.str = <<"/", "a", "/", "0">>) =>
          /\ ret.err = "none"
          /\ Deref(node, ret.ref) = IntegerNode(10)
    /\ (ResolveCall /\ call.str = <<>>) => ret.ref = Ref(<<>>)

\* The const form resolved /a/0 on {"a": [10, 20]}.
C9_Witness ==
    /\ call.op = "resolvePointer const"
    /\ call.before = TenTwenty
    /\ call.str = <<"/", "a", "/", "0">>
    /\ ret.ref = Ref(<<KeyStep(KeyA), IdxStep(0)>>)

(***************************************************************************)
(* setType, operator[], isCompact, TryBoolFromString                       *)
(***************************************************************************)

\* q is the double f (in tenths) with its fraction dropped, toward zero.
TruncatedTowardZero(f, q) ==
    IF f >= 0 THEN q >= 0 /\ q * 10 <= f /\ f < (q + 1) * 10
    ELSE q <= 0 /\ (q - 1) * 10 < f /\ f <= q * 10

\* C5: setType(T) leaves a node of type T alone, converts between Integer and
\* Float numerically (Float to Integer toward zero), and in every other case
\* installs T's default; the node's type is T afterwards.
C5_SetType ==
    call.op = "setType" =>
        LET S == getType(call.before)
            T == call.type
        IN  /\ getType(node) = T
            /\ S = T => node = call.before
            /\ (S = "DATA_FLOAT" /\ T = "DATA_INTEGER") =>
                  /\ node.data = DataInteger(node.data.i)
                  /\ TruncatedTowardZero(call.before.data.f, node.data.i)
            /\ (S = "DATA_INTEGER" /\ T = "DATA_FLOAT") =>
                  node.data = DataFloat(call.before.data.i * 10)
            /\ (call.before = FloatNode(39) /\ T = "DATA_INTEGER") => node = IntegerNode(3)
            /\ (call.before = FloatNode(-39) /\ T = "DATA_INTEGER") => node = IntegerNode(-3)
            /\ (call.before = IntegerNode(5) /\ T = "DATA_FLOAT") => node = FloatNode(50)
            /\ (S # T /\ {S, T} # {"DATA_INTEGER", "DATA_FLOAT"}) =>
                  node.data = (CASE T = "DATA_NULL" -> DataNull
                                 [] T = "DATA_BOOL" -> DataBool(FALSE)
                                 [] T = "DATA_INTEGER" -> DataInteger(0)
                                 [] T = "DATA_FLOAT" -> DataFloat(0)
                                 [] T = "DATA_STRING" -> DataString(<<>>)
                                 [] T = "DATA_VECTOR" -> DataVector(<<>>)
                                 [] T = "DATA_STRUCT" -> DataStruct(<<>>))

\* The Float -3.9 was retyped to Integer.
C5_Witness ==
    /\ call.op = "setType"
    /\ call.before = FloatNode(-39)
    /\ call.type = "DATA_INTEGER"
    /\ node = IntegerNode(-3)

\* C6: reading by index changes nothing and yields Null for a missing key or
\* an index past the end; writing by a missing key adds that key with Null
\* and keeps the other entries; writing by an index past the end grows the
\* Sequence to index + 1, keeps the elements and fills the rest with Null.
C6_Subscript ==
    LET old == call.before
    IN  /\ call.op \in {"operator[key] const", "operator[index] const"} => node = old
        /\ (call.op = "operator[key] const" /\ getType(old) = "DATA_STRUCT" /\ ~MapHas(old.data.m, call.str)) =>
              ret.err = "none" /\ Deref(node, ret.ref) = nullNode
        /\ (call.op = "operator[index] const" /\ getType(old) = "DATA_VECTOR" /\ call.num >= Len(old.data.v)) =>
              ret.err = "none" /\ Deref(node, ret.ref) = nullNode
        /\ (call.op = "operator[key]" /\ getType(old) = "DATA_STRUCT" /\ ~MapHas(old.data.m, call.str)) =>
              /\ getType(node) = "DATA_STRUCT"
              /\ Len(node.data.m) = Len(old.data.m) + 1
              /\ \A k \in 1..Len(old.data.m) : \E j \in 1..Len(node.data.m) : node.data.m[j] = old.data.m[k]
              /\ \E j \in 1..Len(node.data.m) : node.data.m[j] = <<call.str, nullNode>>
              /\ ret.ref = Ref(<<KeyStep(call.str)>>)
        /\ (call.op = "operator[index]" /\ getType(old) = "DATA_VECTOR" /\ call.num >= Len(old.data.v)) =>
              /\ getType(node) = "DATA_VECTOR"
              /\ Len(node.data.v) = call.num + 1
              /\ \A k \in 1..Len(old.data.v) : node.data.v[k] = old.data.v[k]
              /\ \A k \in (Len(old.data.v) + 1)..(call.num + 1) : node.data.v[k] = nullNode
              /\ ret.ref = Ref(<<IdxStep(call.num)>>)

\* Index 2 was written on a Sequence of one element.
C6_Witness ==
    /\ call.op = "operator[index]"
    /\ call.num = 2
    /\ call.before = VectorNode(<<IntegerNode(10)>>)
    /\ node = VectorNode(<<IntegerNode(10), nullNode, nullNode>>)

\* C8: isCompact() is true of every scalar; of a Sequence iff every element
\* is compact; of a Mapping with no entry; of a Mapping with one entry iff
\* its value is compact; false of a Mapping with two or more entries.
C8_IsCompact ==
    call.op = "isCompact" =>
        /\ getType(node) \in {"DATA_NULL", "DATA_BOOL", "DATA_INTEGER", "DATA_FLOAT", "DATA_STRING"} => ret.value
        /\ getType(node) = "DATA_VECTOR" =>
              /\ ret.value = \A k \in 1..Len(node.data.v) : ~HasWideStruct(node.data.v[k])
              /\ ret.value = \A k \in 1..Len(node.data.v) : isCompact(node.data.v[k])
        /\ (getType(node) = "DATA_STRUCT" /\ Len(node.data.m) = 0) => ret.value
        /\ (getType(node) = "DATA_STRUCT" /\ Len(node.data.m) = 1) =>
              /\ ret.value = ~HasWideStruct(node.data.m[1][2])
              /\ ret.value = isCompact(node.data.m[1][2])
        /\ (getType(node) = "DATA_STRUCT" /\ Len(node.data.m) >= 2) => ~ret.value

\* isCompact() was asked of a Mapping with two scalar entries.
C8_Witness ==
    /\ call.op = "isCompact"
    /\ node = StructNode(<< <<KeyA, IntegerNode(10)>>, <<KeyB, StringNode(<<"x">>)>> >>)
    /\ ~ret.value

\* The text is the word, in any letter case, between runs of whitespace.
SpelledAs(text, word) ==
    \E lead \in 0..Len(text) :
        /\ lead + Len(word) <= Len(text)
        /\ \A k \in 1..lead : text[k] \in {" ", "\t", "\n", "\r", "\f"}
        /\ \A k \in 1..Len(word) : ToLowerChar(text[lead + k]) = word[k]
        /\ \A k \in (lead + Len(word) + 1)..Len(text) : text[k] \in {" ", "\t", "\n", "\r", "\f"}

\* C10: TryBoolFromString changes nothing; a Bool gives its value with
\* success; a String spelled true or false (any case, whitespace around it)
\* gives that value with success; any other String and any other type
\* gives false without success.
C10_TryBoolFromString ==
    call.op = "TryBoolFromString" =>
        LET text == node.data.s
            true == <<"t", "r", "u", "e">>
            false == <<"f", "a", "l", "s", "e">>
        IN  /\ node = call.before
            /\ getType(node) = "DATA_BOOL" => ret.success /\ ret.value = node.data.b
            /\ (getType(node) = "DATA_STRING" /\ SpelledAs(text, true)) => ret.success /\ ret.value
            /\ (getType(node) = "DATA_STRING" /\ SpelledAs(text, false)) => ret.success /\ ~ret.value
            /\ (getType(node) = "DATA_STRING" /\ ~SpelledAs(text, true) /\ ~SpelledAs(text, false)) =>
                  ~ret.success /\ ~ret.value
            /\ getType(node) \notin {"DATA_BOOL", "DATA_STRING"} => ~ret.success /\ ~ret.value

\* TryBoolFromString read "  TRUE  ".
C10_Witness ==
    /\ call.op = "TryBoolFromString"
    /\ node = StringNode(<<" ", " ", "T", "R", "U", "E", " ", " ">>)
    /\ ret.success
    /\ ret.value

(***************************************************************************)
(* The parser (an external collaborator): the reading of a written         *)
(* document back into a node.  A number without a fraction is an Integer;  *)
(* each two-character escape is read as the character it denotes.          *)
(***************************************************************************)

At(text, p) == IF p >= 1 /\ p <= Len(text) THEN text[p] ELSE "<EOF>"

ParseFail == [ok |-> FALSE, node |-> nullNode, pos |-> 0]

Parsed(n, p) == [ok |-> TRUE, node |-> n, pos |-> p]

RECURSIVE SkipSpace(_, _)
SkipSpace(text, p) == IF At(text, p) \in {" ", "\t", "\n", "\r"} THEN SkipSpace(text, p + 1) ELSE p

\* The characters of a string literal from p, up to the closing quote.
RECURSIVE ParseChars(_, _, _)
ParseChars(text, p, acc) ==
    IF p > Len(text) THEN [ok |-> FALSE, str |-> acc, pos |-> 0]
    ELSE IF text[p] = "\"" THEN [ok |-> TRUE, str |-> acc, pos |-> p + 1]
    ELSE IF text[p] = "\\"
        THEN IF IsEscapedCode(At(text, p + 1))
                 THEN ParseChars(text, p + 2,
                                 Append(acc, escaped[CHOOSE k \in 1..Len(escaped_code) : escaped_code[k] = text[p + 1]]))
                 ELSE [ok |-> FALSE, str |-> acc, pos |-> 0]
    ELSE ParseChars(text, p + 1, Append(acc, text[p]))

RECURSIVE DigitsEnd(_, _)
DigitsEnd(text, p) == IF IsDigit(At(text, p)) THEN DigitsEnd(text, p + 1) ELSE p

\* -?digits(.digit)?
ParseNumber(text, p) ==
    LET negative == At(text, p) = "-"
        first == IF negative THEN p + 1 ELSE p
        stop == DigitsEnd(text, first)
        whole == DigitsValue(SubSeq(text, first, stop - 1))
        sign == IF negative THEN -1 ELSE 1
    IN  IF stop = first THEN ParseFail
        ELSE IF At(text, stop) = "."
            THEN IF IsDigit(At(text, stop + 1)) /\ ~IsDigit(At(text, stop + 2))
                     THEN Parsed(FloatNode(sign * (whole * 10 + DigitValue(text[stop + 1]))), stop + 2)
                     ELSE ParseFail
        ELSE Parsed(IntegerNode(sign * whole), stop)

IsWord(text, p, word) == p + Len(word) - 1 <= Len(text) /\ SubSeq(text, p, p + Len(word) - 1) = word

\* map[key] = value
MapAssign(m, key, value) ==
    LET with == MapSubscript(m, key)
    IN  [with EXCEPT ![MapIndex(with, key)] = <<key, value>>]

RECURSIVE ParseValue(_, _)
RECURSIVE ParseItems(_, _, _)
RECURSIVE ParseMembers(_, _, _)

\* value (, value)* ]
ParseItems(text, p, acc) ==
    LET r == ParseValue(text, p)
        q == SkipSpace(text, r.pos)
    IN  IF ~r.ok THEN ParseFail
        ELSE IF At(text, q) = "," THEN ParseItems(text, SkipSpace(text, q + 1), Append(acc, r.node))
        ELSE IF At(text, q) = "]" THEN Parsed(VectorNode(Append(acc, r.node)), q + 1)
        ELSE ParseFail

\* "key" : value (, "key" : value)* }
ParseMembers(text, p, acc) ==
    LET key == ParseChars(text, p + 1, <<>>)
        colon == SkipSpace(text, key.pos)
        r == ParseValue(text, SkipSpace(text, colon + 1))
        q == SkipSpace(text, r.pos)
    IN  IF At(text, p) # "\"" THEN ParseFail
        ELSE IF ~key.ok THEN ParseFail
        ELSE IF At(text, colon) # ":" THEN ParseFail
        ELSE IF ~r.ok THEN ParseFail
        ELSE IF At(text, q) = "," THEN ParseMembers(text, SkipSpace(text, q + 1), MapAssign(acc, key.str, r.node))
        ELSE IF At(text, q) = "}" THEN Parsed(StructNode(MapAssign(acc, key.str, r.node)), q + 1)
        ELSE ParseFail

ParseValue(text, p) ==
    LET c == At(text, p)
    IN  IF IsWord(text, p, <<"n", "u", "l", "l">>) THEN Parsed(nullNode, p + 4)
        ELSE IF IsWord(text, p, <<"t", "r", "u", "e">>) THEN Parsed(BoolNode(TRUE), p + 4)
        ELSE IF IsWord(text, p, <<"f", "a", "l", "s", "e">>) THEN Parsed(BoolNode(FALSE), p + 5)
        ELSE IF c = "\""
            THEN LET r == ParseChars(text, p + 1, <<>>)
                 IN  IF r.ok THEN Parsed(StringNode(r.str), r.pos) ELSE ParseFail
        ELSE IF c = "["
            THEN LET q == SkipSpace(text, p + 1)
                 IN  IF At(text, q) = "]" THEN Parsed(VectorNode(<<>>), q + 1) ELSE ParseItems(text, q, <<>>)
        ELSE IF c = "{"
            THEN LET q == SkipSpace(text, p + 1)
                 IN  IF At(text, q) = "}" THEN Parsed(StructNode(<<>>), q + 1) ELSE ParseMembers(text, q, <<>>)
        ELSE ParseNumber(text, p)

\* The whole text is one value.
Parse(text) ==
    LET r == ParseValue(text, SkipSpace(text, 1))
    IN  IF r.ok /\ SkipSpace(text, r.pos) = Len(text) + 1 THEN r ELSE ParseFail

(***************************************************************************)
(* Round trip                                                              *)
(***************************************************************************)

RoundTrips == Parse(ret.out).ok /\ NodeEq(Parse(ret.out).node, node)

\* C7 as stated: a node built without comments is read back equal from what
\* toJson writes, in either mode, whatever its strings hold.
C7_RoundTripForEveryNode == (call.op = "toJson" /\ ~HasComments(node)) => RoundTrips

\* A raw backslash is followed by one of the characters " \ b f n r t /.
HasEscapePair(string) ==
    \E k \in 1..(Len(string) - 1) :
        string[k] = "\\" /\ string[k + 1] \in {"\"", "\\", "b", "f", "n", "r", "t", "/"}

\* The node holds, as a String, as a key or as a Float, something toJson
\* writes the way it writes another value: a string with an escape pair, or
\* a Float without a fraction (written like the Integer).
RECURSIVE WritesAmbiguously(_)
WritesAmbiguously(n) ==
    \/ getType(n) = "DATA_STRING" /\ HasEscapePair(n.data.s)
    \/ getType(n) = "DATA_FLOAT" /\ n.data.f % 10 = 0
    \/ \E k \in 1..Len(n.data.v) : WritesAmbiguously(n.data.v[k])
    \/ \E k \in 1..Len(n.data.m) : HasEscapePair(n.data.m[k][1]) \/ WritesAmbiguously(n.data.m[k][2])

\* C7, amended: a node built without comments is read back equal from what
\* toJson writes, in either mode, provided no String or key in it holds a
\* raw backslash followed by one of " \ b f n r t / and no Float in it is
\* written without a fraction.
C7_RoundTripWithoutEscapePairs ==
    (call.op = "toJson" /\ ~HasComments(node) /\ ~WritesAmbiguously(node)) => RoundTrips

\* A Sequence holding a String with a quote and a newline in it was written
\* on several lines and read back.
C7_Witness ==
    /\ PrettyCall
    /\ getType(node) = "DATA_VECTOR"
    /\ Len(node.data.v) = 2
    /\ node.data.v[1] = StringNode(<<"a", "\"", "\n">>)
    /\ node.data.v[2] = FloatNode(39)
    /\ RoundTrips

=============================================================================
